---------------------------- MODULE Spec2Model ----------------------------
(***************************************************************************)
(* Model of generate_icons.py: the launcher-icon renderer                  *)
(* create_simple_timer_icon and the module-level loop that writes two PNG  *)
(* files per density.                                                      *)
(*                                                                         *)
(* Coordinates handed to the drawing primitives are Python floats          *)
(* (clock_radius * 0.5, clock_radius * 0.7).  They are kept here in        *)
(* TENTHS of a pixel (an integer v stands for v/10), which represents      *)
(* every value the code computes exactly.  The IEEE products size * 0.3    *)
(* and clock_radius * 0.7 differ from the exact decimals by less than      *)
(* 1e-13 and land on an integer exactly when the decimal value is one, so  *)
(* int() and the primitive's truncation agree with the exact arithmetic.   *)
(***************************************************************************)
EXTENDS Integers, Sequences, FiniteSets, TLC

(* ------------------------------ bounds -------------------------------- *)

\* RenderSpec renders every size in 1..MaxSize and every size of the table.
MaxSize == 60

\* WorkersSpec starts at most MaxRenders renders in one behaviour.
MaxRenders == 3

(* ------------------------------- state -------------------------------- *)

VARIABLES
    pc,         \* Spec: the statement of the script about to run
    idx,        \* Spec: how many entries of sizes the for loop has taken
    icon,       \* Spec: the image bound to icon
    dirs,       \* Spec: the directories that exist
    files,      \* Spec: path -> image, the files this run has written
    writes,     \* Spec: the save calls made so far, each with its outcome
    rendered,   \* Spec: the sizes create_simple_timer_icon was called with
    out,        \* Spec: the lines printed
    exc,        \* Spec: the uncaught exception that ended the run, if any
    arg,        \* RenderSpec: the size argument of the call
    rpc,        \* RenderSpec: "call" before the call, "returned" after it
    result,     \* RenderSpec: the returned image
    issued,     \* RenderSpec: the draw calls the render issued
    locals,     \* RenderSpec: the dimensions the render computed
    wpc,        \* WorkersSpec: per worker, the next statement of its render
    wsize,      \* WorkersSpec: per worker, the size argument of its render
    canvas,     \* WorkersSpec: frame -> the image bound to img in that frame
    ret,        \* WorkersSpec: per worker, the image its last render returned
    nrenders    \* WorkersSpec: the renders started so far

mvars == <<pc, idx, icon, dirs, files, writes, rendered, out, exc>>

rvars == <<arg, rpc, result, issued, locals>>

wvars == <<wpc, wsize, canvas, ret, nrenders>>

vars == <<mvars, rvars, wvars>>

(* ------------------------- program constants -------------------------- *)

\* sizes = {'mdpi': 48, ...}; a dict iterates in insertion order.
sizes == << <<"mdpi", 48>>, <<"hdpi", 72>>, <<"xhdpi", 96>>,
            <<"xxhdpi", 144>>, <<"xxxhdpi", 192>> >>

purple_color == <<166, 77, 255>>

white_color == <<255, 255, 255>>

base_dir == "/Users/surajiyer/Development/personal/buzztimer/app/src/main/res"

(* ------------------------------ helpers ------------------------------- *)

Max(a, b) == IF a >= b THEN a ELSE b

\* A whole number of pixels as a coordinate in tenths.
Px(n) == 10 * n

\* The C cast (int)v the drawing primitives apply to a float coordinate:
\* truncation toward zero.
TruncCoord(v) == IF v >= 0 THEN v \div 10 ELSE -((-v) \div 10)

\* An RGB fill on an RGBA image becomes an opaque RGBA ink.
Ink(color) == IF Len(color) = 3 THEN color \o <<255>> ELSE color

(* ------------------- locals of create_simple_timer_icon ---------------- *)

center(size) == size \div 2

\* Faulty variant: the factor 0.8 in place of 0.3.
clock_radius_wide(size) == (size * 8) \div 10

\* int(size * 0.3)
clock_radius(size) == (size * 3) \div 10

\* Faulty variant: the floor of 2 dropped.
hand_width_nofloor(size) == size \div 24

hand_width(size) == Max(2, size \div 24)

\* Faulty variant: the factor 0.8 in place of 0.5.
hour_length_long(size) == ((size * 3) \div 10) * 8

\* clock_radius * 0.5, in tenths
hour_length(size) == clock_radius(size) * 5

\* Python's round() of a value in tenths: to the nearest integer, a half to
\* the even neighbour.
RoundHalfEven(t) ==
    LET q == t \div 10
        r == t % 10
    IN  IF r < 5 THEN q
        ELSE IF r > 5 THEN q + 1
        ELSE IF q % 2 = 0 THEN q ELSE q + 1

\* Faulty variant: the length rounded to a whole pixel before it is used.
minute_length_rounded(size) == 10 * RoundHalfEven(((size * 3) \div 10) * 7)

\* clock_radius * 0.7, in tenths
minute_length(size) == clock_radius(size) * 7

dot_radius(size) == Max(2, size \div 16)

(* --------------------------- drawing model ---------------------------- *)

\* Image.new, ImageDraw.ellipse and ImageDraw.line are library calls.  They
\* are modelled by what they paint: a filled ellipse paints the pixels whose
\* centre lies in the ellipse inscribed in its box (the library's rasteriser
\* may add single pixels on the rim), a wide axis-aligned line paints the
\* rectangle of its width around the segment.

\* Image.new('RGBA', (w, h), color): ValueError for a negative side.
ImageNew(w, h, color) ==
    IF w < 0 \/ h < 0
    THEN [err |-> TRUE, width |-> 0, height |-> 0, px |-> <<>>]
    ELSE [err |-> FALSE, width |-> w, height |-> h,
          px |-> [x \in 0..(w - 1) |-> [y \in 0..(h - 1) |-> color]]]

\* Pixel (x, y) lies in the ellipse inscribed in the box [x0, y0, x1, y1]
\* (both corners inclusive).
InEllipse(x, y, x0, y0, x1, y1) ==
    /\ x0 <= x /\ x <= x1 /\ y0 <= y /\ y <= y1
    /\ LET a == x1 - x0
           b == y1 - y0
           u == 2 * x - x0 - x1
           v == 2 * y - y0 - y1
       IN  IF a = b THEN u * u + v * v <= a * a
           ELSE u * u * b * b + v * v * a * a <= a * a * b * b

\* Pixel (x, y) lies on the axis-aligned line of width w from (x0, y0) to
\* (x1, y1): the rectangle the wide-line primitive fills, one pixel when
\* both ends coincide.
InLine(x, y, x0, y0, x1, y1, w) ==
    LET lo == (Max(w, 1) - 1) \div 2
        hi == Max(w, 1) \div 2
    IN  CASE x0 = x1 /\ y0 = y1 -> x = x0 /\ y = y0
          [] x0 = x1 /\ y1 < y0 ->
                 x0 - lo <= x /\ x <= x0 + hi /\ y1 <= y /\ y <= y0
          [] x0 = x1 /\ y1 > y0 ->
                 x0 - hi <= x /\ x <= x0 + lo /\ y0 <= y /\ y <= y1
          [] y0 = y1 /\ x1 > x0 ->
                 y0 - hi <= y /\ y <= y0 + lo /\ x0 <= x /\ x <= x1
          [] y0 = y1 /\ x1 < x0 ->
                 y0 - lo <= y /\ y <= y0 + hi /\ x1 <= x /\ x <= x0
          [] OTHER -> FALSE

Min(a, b) == IF a <= b THEN a ELSE b

\* The corners of a draw call as the primitive uses them: its float
\* coordinates truncated.
Box(call) == [i \in 1..4 |-> TruncCoord(call.xy[i])]

\* The pixels one draw call covers.
Covers(call, box, x, y) ==
    IF call.op = "ellipse"
    THEN InEllipse(x, y, box[1], box[2], box[3], box[4])
    ELSE InLine(x, y, box[1], box[2], box[3], box[4], call.width)

\* draw.ellipse requires x1 >= x0 and y1 >= y0 and raises ValueError
\* otherwise; draw.line has no precondition.
CallFails(call) ==
    /\ call.op = "ellipse"
    /\ \/ Box(call)[3] < Box(call)[1]
       \/ Box(call)[4] < Box(call)[2]

\* One draw call applied to an image: covered pixels inside the canvas take
\* the ink, the others keep their value.  No primitive reaches further than
\* its width beyond the columns of its corners, so the columns outside are
\* carried over whole.
Draw(img, call) ==
    IF img.err \/ CallFails(call)
    THEN [err |-> TRUE, width |-> 0, height |-> 0, px |-> <<>>]
    ELSE LET box == Box(call)
             ink == Ink(call.fill)
             lo  == Min(box[1], box[3]) - Max(call.width, 1)
             hi  == Max(box[1], box[3]) + Max(call.width, 1)
         IN  [img EXCEPT !.px =
                [x \in 0..(img.width - 1) |->
                   IF x < lo \/ x > hi
                   THEN img.px[x]
                   ELSE [y \in 0..(img.height - 1) |->
                           IF Covers(call, box, x, y) THEN ink
                                                      ELSE img.px[x][y]]]]

(* ---------------------- create_simple_timer_icon ---------------------- *)

\* draw.ellipse([clock_left, clock_top, clock_right, clock_bottom], ...)
ClockCall(size) ==
    [op |-> "ellipse",
     xy |-> << Px(center(size) - clock_radius(size)),
               Px(center(size) - clock_radius(size)),
               Px(center(size) + clock_radius(size)),
               Px(center(size) + clock_radius(size)) >>,
     fill |-> white_color, width |-> 1]

\* draw.line([center, center, center, center - hour_length], ...)
HourCall(size) ==
    [op |-> "line",
     xy |-> << Px(center(size)), Px(center(size)),
               Px(center(size)), Px(center(size)) - hour_length(size) >>,
     fill |-> purple_color, width |-> hand_width(size)]

\* draw.line([center, center, center + minute_length, center], ...)
MinuteCall(size) ==
    [op |-> "line",
     xy |-> << Px(center(size)), Px(center(size)),
               Px(center(size)) + minute_length(size), Px(center(size)) >>,
     fill |-> purple_color, width |-> hand_width(size)]

\* Faulty variant: the dot filled white.
DotCall_white(size) ==
    [op |-> "ellipse",
     xy |-> << Px(center(size) - dot_radius(size)),
               Px(center(size) - dot_radius(size)),
               Px(center(size) + dot_radius(size)),
               Px(center(size) + dot_radius(size)) >>,
     fill |-> white_color, width |-> 1]

\* draw.ellipse([center - dot_radius, ..., center + dot_radius], ...)
DotCall(size) ==
    [op |-> "ellipse",
     xy |-> << Px(center(size) - dot_radius(size)),
               Px(center(size) - dot_radius(size)),
               Px(center(size) + dot_radius(size)),
               Px(center(size) + dot_radius(size)) >>,
     fill |-> purple_color, width |-> 1]

\* The draw calls of one render, in program order.
DrawCalls(size) ==
    << ClockCall(size), HourCall(size), MinuteCall(size), DotCall(size) >>

\* Faulty variant: the height taken as twice the centre.
NewCanvas_evenSide(size) ==
    ImageNew(size, 2 * center(size), purple_color \o <<255>>)

\* img = Image.new('RGBA', (size, size), purple_color + (255,))
NewCanvas(size) == ImageNew(size, size, purple_color \o <<255>>)

create_simple_timer_icon(size) ==
    LET calls == DrawCalls(size)
    IN  Draw(Draw(Draw(Draw(NewCanvas(size), calls[1]), calls[2]),
                  calls[3]), calls[4])

\* The dimensions a render computes (lines 30, 31, 43, 56).
Locals(size) ==
    [center |-> center(size), clock_radius |-> clock_radius(size),
     hand_width |-> hand_width(size), dot_radius |-> dot_radius(size)]

NoImage == [err |-> FALSE, width |-> 0, height |-> 0, px |-> <<>>]

TableSizes == {sizes[i][2] : i \in 1..Len(sizes)}

(* -------------------- the script: lines 63 to 85 ---------------------- *)

\* os.path.join(a, b) for a relative b
PathJoin(a, b) == a \o "/" \o b

mipmap_dir(density) == PathJoin(base_dir, "mipmap-" \o density)

icon_path(density) == PathJoin(mipmap_dir(density), "ic_launcher.png")

\* Faulty variant: the round variant saved under the plain variant's name.
round_icon_path_same(density) ==
    PathJoin(mipmap_dir(density), "ic_launcher.png")

round_icon_path(density) ==
    PathJoin(mipmap_dir(density), "ic_launcher_round.png")

\* Faulty variant: the round variant masked to the inscribed circle.
RoundIcon_masked ==
    IF icon.err THEN icon
    ELSE [icon EXCEPT !.px =
            [x \in 0..(icon.width - 1) |->
               [y \in 0..(icon.height - 1) |->
                  IF InEllipse(x, y, 0, 0, icon.width - 1, icon.height - 1)
                  THEN icon.px[x][y] ELSE <<0, 0, 0, 0>>]]]

\* The image handed to the second save: the same object as the first.
RoundIcon == icon

\* Faulty variant: the exception of a failed save caught and ignored.
AfterSave_swallow(ok, nxt) == nxt

\* Where the script goes after a save: an exception raised by save is not
\* caught and ends the run with a traceback.
AfterSave(ok, nxt) == IF ok THEN nxt ELSE "failed"

MipmapDirs == {mipmap_dir(sizes[i][1]) : i \in 1..Len(sizes)}

RenderIdle ==
    /\ arg = 0 /\ rpc = "off" /\ result = NoImage /\ issued = <<>>
    /\ locals = <<>>

WorkersIdle ==
    /\ wpc = <<>> /\ wsize = <<>> /\ canvas = <<>> /\ ret = <<>>
    /\ nrenders = 0

MainIdle ==
    /\ pc = "off" /\ idx = 0 /\ icon = NoImage /\ dirs = {} /\ files = <<>>
    /\ writes = <<>> /\ rendered = <<>> /\ out = <<>> /\ exc = "none"

\* Before the run any of the mipmap directories may already exist.
Init ==
    /\ pc = "for"
    /\ idx = 0
    /\ icon = NoImage
    /\ dirs \in SUBSET MipmapDirs
    /\ files = <<>>
    /\ writes = <<>>
    /\ rendered = <<>>
    /\ out = <<>>
    /\ exc = "none"
    /\ RenderIdle
    /\ WorkersIdle

density == sizes[idx][1]

size == sizes[idx][2]

\* for density, size in sizes.items():
ForHead ==
    /\ pc = "for"
    /\ IF idx < Len(sizes)
       THEN idx' = idx + 1 /\ pc' = "makedirs"
       ELSE idx' = idx /\ pc' = "print_complete"
    /\ UNCHANGED <<icon, dirs, files, writes, rendered, out, exc>>

\* os.makedirs(mipmap_dir, exist_ok=True): an existing directory is not an
\* error; an OSError is not caught.
MakeDirs ==
    /\ pc = "makedirs"
    /\ \E ok \in BOOLEAN :
         IF ok
         THEN /\ dirs' = dirs \cup {mipmap_dir(density)}
              /\ pc' = "render"
              /\ exc' = exc
         ELSE /\ dirs' = dirs
              /\ pc' = "failed"
              /\ exc' = "OSError: makedirs"
    /\ UNCHANGED <<idx, icon, files, writes, rendered, out>>

\* icon = create_simple_timer_icon(size)
RenderIcon ==
    /\ pc = "render"
    /\ icon' = create_simple_timer_icon(size)
    /\ rendered' = Append(rendered, size)
    /\ pc' = IF icon'.err THEN "failed" ELSE "save"
    /\ exc' = IF icon'.err THEN "ValueError: render" ELSE exc
    /\ UNCHANGED <<idx, dirs, files, writes, out>>

\* image.save(path, "PNG"): on success the file holds the image's pixels
\* (PNG is lossless); on failure nothing is recorded as written.
Save(path, image, nxt) ==
    \E ok \in BOOLEAN :
       /\ writes' = Append(writes, [path |-> path, ok |-> ok])
       /\ files' = IF ok
                   THEN [p \in DOMAIN files \cup {path} |->
                           IF p = path THEN image ELSE files[p]]
                   ELSE files
       /\ pc' = AfterSave(ok, nxt)
       /\ exc' = IF pc' = "failed" THEN "OSError: save" ELSE exc

\* icon.save(icon_path, "PNG")
SaveIcon ==
    /\ pc = "save"
    /\ Save(icon_path(density), icon, "save_round")
    /\ UNCHANGED <<idx, icon, dirs, rendered, out>>

\* icon.save(round_icon_path, "PNG")
SaveRoundIcon ==
    /\ pc = "save_round"
    /\ Save(round_icon_path(density), RoundIcon, "print")
    /\ UNCHANGED <<idx, icon, dirs, rendered, out>>

\* print(f"Generated {density} icons: {size}x{size} pixels")
PrintGenerated ==
    /\ pc = "print"
    /\ out' = Append(out, <<"Generated", density, size, size>>)
    /\ pc' = "for"
    /\ UNCHANGED <<idx, icon, dirs, files, writes, rendered, exc>>

\* print("Icon generation complete!")
PrintComplete ==
    /\ pc = "print_complete"
    /\ out' = Append(out, <<"Icon generation complete!">>)
    /\ pc' = "print_all"
    /\ UNCHANGED <<idx, icon, dirs, files, writes, rendered, exc>>

\* print("All fallback PNG icons have been created ...")
PrintAll ==
    /\ pc = "print_all"
    /\ out' = Append(out, <<"All fallback PNG icons have been created">>)
    /\ pc' = "done"
    /\ UNCHANGED <<idx, icon, dirs, files, writes, rendered, exc>>

Next ==
    /\ \/ ForHead
       \/ MakeDirs
       \/ RenderIcon
       \/ SaveIcon
       \/ SaveRoundIcon
       \/ PrintGenerated
       \/ PrintComplete
       \/ PrintAll
    /\ UNCHANGED <<rvars, wvars>>

Spec == Init /\ [][Next]_vars

(* ------------------- RenderSpec: the renderer alone -------------------- *)

RenderSizes == (1..MaxSize) \cup TableSizes

RenderInit ==
    /\ arg \in RenderSizes
    /\ rpc = "call"
    /\ result = NoImage
    /\ issued = <<>>
    /\ locals = <<>>
    /\ MainIdle
    /\ WorkersIdle

Render ==
    /\ rpc = "call"
    /\ result' = create_simple_timer_icon(arg)
    /\ issued' = DrawCalls(arg)
    /\ locals' = Locals(arg)
    /\ rpc' = "returned"
    /\ UNCHANGED <<arg, mvars, wvars>>

RenderNext == Render

RenderSpec == RenderInit /\ [][RenderNext]_vars

(* ------------- WorkersSpec: renders running side by side -------------- *)

Workers == {1, 2}

\* Faulty variant: img kept in one module-level variable.
Frame_shared(w) == 1

\* img and draw are locals of create_simple_timer_icon: every call has a
\* frame of its own.
Frame(w) == w

WorkersInit ==
    /\ wpc = [w \in Workers |-> "idle"]
    /\ wsize = [w \in Workers |-> 0]
    /\ canvas = [f \in Workers |-> NoImage]
    /\ ret = [w \in Workers |-> NoImage]
    /\ nrenders = 0
    /\ MainIdle
    /\ RenderIdle

\* The call: a new frame in which img is not bound yet.
Call(w) ==
    /\ wpc[w] \in {"idle", "returned"}
    /\ nrenders < MaxRenders
    /\ \E s \in TableSizes : wsize' = [wsize EXCEPT ![w] = s]
    /\ wpc' = [wpc EXCEPT ![w] = "new"]
    /\ canvas' = [canvas EXCEPT ![Frame(w)] = NoImage]
    /\ ret' = [ret EXCEPT ![w] = NoImage]
    /\ nrenders' = nrenders + 1

\* img = Image.new(...)
New(w) ==
    /\ wpc[w] = "new"
    /\ canvas' = [canvas EXCEPT ![Frame(w)] = NewCanvas(wsize[w])]
    /\ wpc' = [wpc EXCEPT ![w] = "clock"]
    /\ UNCHANGED <<wsize, ret, nrenders>>

\* One draw statement of the body on the frame's img.
DrawStep(w, at, k, nxt) ==
    /\ wpc[w] = at
    /\ canvas' = [canvas EXCEPT
                    ![Frame(w)] = Draw(canvas[Frame(w)], DrawCalls(wsize[w])[k])]
    /\ wpc' = [wpc EXCEPT ![w] = nxt]
    /\ UNCHANGED <<wsize, ret, nrenders>>

DrawClock(w) == DrawStep(w, "clock", 1, "hour")

DrawHour(w) == DrawStep(w, "hour", 2, "minute")

DrawMinute(w) == DrawStep(w, "minute", 3, "dot")

DrawDot(w) == DrawStep(w, "dot", 4, "return")

\* return img
Return(w) ==
    /\ wpc[w] = "return"
    /\ ret' = [ret EXCEPT ![w] = canvas[Frame(w)]]
    /\ wpc' = [wpc EXCEPT ![w] = "returned"]
    /\ UNCHANGED <<wsize, canvas, nrenders>>

WorkersNext ==
    /\ \E w \in Workers :
          \/ Call(w)
          \/ New(w)
          \/ DrawClock(w)
          \/ DrawHour(w)
          \/ DrawMinute(w)
          \/ DrawDot(w)
          \/ Return(w)
    /\ UNCHANGED <<mvars, rvars>>

WorkersSpec == WorkersInit /\ [][WorkersNext]_vars

(* ------------------------------ claims -------------------------------- *)

Accent == <<166, 77, 255, 255>>

White == <<255, 255, 255, 255>>

DensityTable ==
    [mdpi |-> 48, hdpi |-> 72, xhdpi |-> 96, xxhdpi |-> 144, xxxhdpi |-> 192]

Variants == {"ic_launcher", "ic_launcher_round"}

FileOf(d, v) == base_dir \o "/mipmap-" \o d \o "/" \o v \o ".png"

SquareImage(img, n) ==
    /\ ~img.err
    /\ img.width = n /\ img.height = n
    /\ DOMAIN img.px = 0..(n - 1)
    /\ \A x \in 0..(n - 1) : DOMAIN img.px[x] = 0..(n - 1)

TenFiles ==
    /\ DOMAIN files = {FileOf(d, v) : d \in DOMAIN DensityTable, v \in Variants}
    /\ Cardinality(DOMAIN files) = 10
    /\ \A d \in DOMAIN DensityTable : \A v \in Variants :
          SquareImage(files[FileOf(d, v)], DensityTable[d])
    /\ Len(writes) = 10
    /\ \A i \in 1..Len(writes) : writes[i].ok
    /\ \A i, j \in 1..Len(writes) : i # j => writes[i].path # writes[j].path

\* The statements the script has yet to run when no save or makedirs fails.
Remaining ==
    CASE pc = "for"            -> 6 * (Len(sizes) - idx) + 3
      [] pc = "makedirs"       -> 6 * (Len(sizes) - idx) + 8
      [] pc = "render"         -> 6 * (Len(sizes) - idx) + 7
      [] pc = "save"           -> 6 * (Len(sizes) - idx) + 6
      [] pc = "save_round"     -> 6 * (Len(sizes) - idx) + 5
      [] pc = "print"          -> 6 * (Len(sizes) - idx) + 4
      [] pc = "print_complete" -> 2
      [] pc = "print_all"      -> 1
      [] OTHER                 -> 0

\* C1: a run over the density table terminates (every statement brings the
\* end nearer, only "done" and "failed" have no statement left, and it ends
\* failed only with an uncaught exception), and when no write fails it ends
\* in "done" with exactly the 10 files written, one per (density, variant),
\* each a square image of the density's size, no (density, variant) written
\* twice.
C1_FullRun ==
    /\ [](pc = "done" => TenFiles)
    /\ [](Remaining = 0 <=> pc \in {"done", "failed"})
    /\ [](pc = "failed" <=> exc # "none")
    /\ [][Remaining' < Remaining /\ Remaining' >= 0]_vars

C1_Witness == pc = "done" /\ exc = "none" /\ Cardinality(DOMAIN files) = 10

\* C2: for every positive size the render returns, without an error, a
\* square canvas of size columns by size rows.
C2_SquareCanvas == rpc = "returned" => SquareImage(result, arg)

C2_Witness == rpc = "returned" /\ arg = 1 /\ SquareImage(result, 1)

\* C3: once a save has failed the run is in its failed state with the
\* exception uncaught, the failed save is the last save ever attempted and
\* the run is not in its successful end state.
C3_WriteFailureFatal ==
    (\E i \in 1..Len(writes) : ~writes[i].ok) =>
        /\ pc = "failed"
        /\ pc # "done"
        /\ exc = "OSError: save"
        /\ ~writes[Len(writes)].ok
        /\ \A i \in 1..(Len(writes) - 1) : writes[i].ok
        /\ writes[Len(writes)].path \notin DOMAIN files

C3_Witness ==
    /\ pc = "failed"
    /\ Len(writes) = 4
    /\ ~writes[4].ok
    /\ Cardinality(DOMAIN files) = 3

\* C4: in the returned canvas the pivot pixel (center, center) has the accent
\* color; the dot is the last draw call, after the white disk and both
\* hands; for size 96 the pivot is (48, 48).
C4_PivotAccent ==
    rpc = "returned" =>
        /\ result.px[arg \div 2][arg \div 2] = Accent
        /\ Len(issued) = 4
        /\ issued[1].op = "ellipse" /\ issued[1].fill = white_color
        /\ issued[2].op = "line" /\ issued[3].op = "line"
        /\ issued[4].op = "ellipse" /\ issued[4].fill = purple_color
        /\ arg = 96 => result.px[48][48] = Accent

C4_Witness == rpc = "returned" /\ arg = 96 /\ result.px[48][48] = Accent

\* C5: for any size the corner pixel (0, 0) of the returned canvas has the
\* accent color.
C5_CornerAccent == rpc = "returned" => result.px[0][0] = Accent

C5_Witness == rpc = "returned" /\ arg = 48 /\ result.px[0][0] = Accent

StrictlyInDisk(x, y, c, r) == (x - c) * (x - c) + (y - c) * (y - c) < r * r

\* C6: for size 96 every pixel strictly inside the white disk (center
\* (48, 48), radius 28) that neither hand nor the dot covers is white, and
\* (48, 30), beyond the hour hand's end, is such a pixel.
C6_DiskWhite ==
    (rpc = "returned" /\ arg = 96) =>
        /\ \A x \in 0..95 : \A y \in 0..95 :
             ( /\ StrictlyInDisk(x, y, 48, 28)
               /\ \A k \in 2..4 : ~Covers(issued[k], Box(issued[k]), x, y) )
             => result.px[x][y] = White
        /\ result.px[48][30] = White

C6_Witness ==
    /\ rpc = "returned" /\ arg = 96
    /\ StrictlyInDisk(48, 30, 48, 28)
    /\ result.px[48][30] = White

FloorDiv(n, d) == CHOOSE q \in 0..n : d * q <= n /\ n < d * (q + 1)

\* C7: the dimensions of a render are center = floor(size/2), clockRadius =
\* floor(size*0.3), handWidth = max(2, floor(size/24)), dotRadius =
\* max(2, floor(size/16)); 48, 28, 4, 6 for size 96 and 0, 0, 2, 2 for 1.
C7_Dimensions ==
    rpc = "returned" =>
        /\ locals.center = FloorDiv(arg, 2)
        /\ locals.clock_radius = FloorDiv(3 * arg, 10)
        /\ locals.hand_width =
             (IF FloorDiv(arg, 24) > 2 THEN FloorDiv(arg, 24) ELSE 2)
        /\ locals.dot_radius =
             (IF FloorDiv(arg, 16) > 2 THEN FloorDiv(arg, 16) ELSE 2)
        /\ issued[2].width = locals.hand_width
        /\ issued[3].width = locals.hand_width
        /\ arg = 96 => locals = [center |-> 48, clock_radius |-> 28,
                                 hand_width |-> 4, dot_radius |-> 6]
        /\ arg = 1 => locals = [center |-> 0, clock_radius |-> 0,
                                hand_width |-> 2, dot_radius |-> 2]

C7_Witness ==
    /\ rpc = "returned" /\ arg = 1
    /\ locals.hand_width = 2 /\ locals.dot_radius = 2

\* C8: whatever renders ran before or run alongside, a render of a size
\* returns the canvas the render of that size alone returns, so two returned
\* renders of one size hold identical canvases.
C8_RenderIndependent ==
    \A w \in Workers :
        wpc[w] = "returned" =>
            /\ ret[w] = create_simple_timer_icon(wsize[w])
            /\ \A v \in Workers :
                 (wpc[v] = "returned" /\ wsize[v] = wsize[w]) => ret[v] = ret[w]

C8_Witness ==
    /\ wpc[1] = "returned" /\ wpc[2] = "returned"
    /\ wsize[1] = 48 /\ wsize[2] = 48
    /\ nrenders = 3
    /\ ret[1] = ret[2]

Count(seq, e) == Cardinality({k \in 1..Len(seq) : seq[k] = e})

\* C9: the two files of a density hold identical pixels: the density was
\* rendered once and the second save writes the image the first one wrote.
C9_SameCanvas ==
    /\ \A i \in 1..Len(sizes) :
         ( /\ icon_path(sizes[i][1]) \in DOMAIN files
           /\ round_icon_path(sizes[i][1]) \in DOMAIN files )
         => /\ files[icon_path(sizes[i][1])] =
                 files[round_icon_path(sizes[i][1])]
            /\ Count(rendered, sizes[i][2]) = 1
    /\ pc = "save_round" => files[icon_path(density)] = icon

C9_Witness ==
    /\ pc = "print" /\ idx = 3
    /\ files[FileOf("xhdpi", "ic_launcher")] =
         files[FileOf("xhdpi", "ic_launcher_round")]

\* C10 as stated: the ends given to the line primitive are the rounded
\* integers center - round(clockRadius * 0.5) and center +
\* round(clockRadius * 0.7); for size 48 the minute hand ends at x = 34.
C10_RoundedEnds ==
    rpc = "returned" =>
        /\ issued[2].xy[4] =
             10 * ((arg \div 2) - RoundHalfEven(((3 * arg) \div 10) * 5))
        /\ issued[3].xy[3] =
             10 * ((arg \div 2) + RoundHalfEven(((3 * arg) \div 10) * 7))
        /\ arg = 48 => issued[3].xy[3] = 340

\* C10 amended: both hands are lines in the accent color of width handWidth
\* from (center, center); the ends given to the line primitive are the
\* unrounded center - clockRadius * 0.5 and center + clockRadius * 0.7 (in
\* tenths here); for size 48 the minute hand's end is x = 33.8.
C10_UnroundedEnds ==
    rpc = "returned" =>
        LET c == arg \div 2
            r == (3 * arg) \div 10
            w == IF arg \div 24 > 2 THEN arg \div 24 ELSE 2
        IN  /\ issued[2] = [op |-> "line", fill |-> <<166, 77, 255>>,
                            width |-> w,
                            xy |-> <<10 * c, 10 * c, 10 * c, 10 * c - 5 * r>>]
            /\ issued[3] = [op |-> "line", fill |-> <<166, 77, 255>>,
                            width |-> w,
                            xy |-> <<10 * c, 10 * c, 10 * c + 7 * r, 10 * c>>]
            /\ arg = 48 => issued[3].xy[3] = 338

C10_Witness == rpc = "returned" /\ arg = 48 /\ issued[3].xy[3] = 338

=============================================================================
